---- MODULE Spec2Model ----
(***************************************************************************)
(* Ratatoskr: the host window (src/main.py) that dispatches one reasoning  *)
(* pipeline per user turn to a worker thread and polls a queue for its     *)
(* result, and the FAISS-backed long-term memory (src/memory/long_term.py) *)
(* the pipeline's tools call.                                              *)
(*                                                                         *)
(* Two sub-models share this module.  The host model (Spec, FairSpec) has  *)
(* the GUI thread's event handlers as actions and each worker_thread as a  *)
(* small process.  The store model (StoreSpec, CrashSpec) has the tool     *)
(* calls store_memory / retrieve_relevant_memories as processes over the   *)
(* module globals of long_term.py and the two files on disk.               *)
(*                                                                         *)
(* main.py imports the name add_memory from memory.long_term; the module   *)
(* defines store_memory.  The "Save to Memory" tool is taken to be         *)
(* store_memory.                                                           *)
(***************************************************************************)
EXTENDS Integers, Sequences, FiniteSets, TLC

\* ------------------------------------------------------------------ bounds
\* Number of send_message dispatches followed in one run of the host.
MaxTasks == 2
\* Number of listen_and_process threads in flight at once.
MaxListen == 1

Tasks == 1..MaxTasks

\* What the user can type into input_box, and what listen_for_command returns.
UserTexts == {"hi", " "}
SpeechTexts == {"", "hi"}
\* What agent_executor.invoke can return (a dict, with or without "output"),
\* and the messages of the exceptions the pipeline can raise.
EmptyDict == [k \in {} |-> ""]
Responses == {[output |-> "ok"], [output |-> "Error 404 page"], EmptyDict}
ErrMsgs == {"boom"}

Modes == {"hybrid", "voice_only", "text_only"}

\* Nested calls of AgentEngine.run the interpreter's recursion limit lets through
\* (CPython allows about 1000 frames; the run is followed on a stack this deep).
MaxDepth == 6
\* What policy.next_step can decide (a click, or a final answer), and what a
\* validator can answer.  The stub of Validator.validate always answers TRUE; the
\* LLM validation it is to be replaced by can answer either.
Decisions == {"Action: Click Send", "Paris"}
ValidatorAnswers == BOOLEAN

\* Length of the document log followed in the store model.
MaxDocs == 2
\* The threads calling the memory tools: two worker threads, so that every pair of
\* tool calls can overlap.
Threads == {1, 2}

\* The texts store_memory is called with (two that differ only in case, and a blank
\* one), the queries, and the n_results passed to retrieve.
StoreTexts == {"fact A", "Fact A", " "}
QueryTexts == {"fact A", "Fact A"}
\* The texts of the runs in which processes end mid-call (what a text says plays no
\* part there).
CrashTexts == {"fact A", "fact B"}
NResults == {1, 2}

VARIABLES
    \* RatatoskrApp
    current_mode,           \* self.current_mode
    enabled,                \* isEnabled() of input_box, send_button, listen_button
    input_text,             \* input_box.text()
    conversation_history,   \* self.conversation_history
    mp_queue,               \* self.mp_queue: the task whose Queue it is, 0 before the first
    timer_active,           \* response_timer.isActive()
    listening,              \* listen_and_process threads in flight
    pending_listen,         \* QTimer.singleShot(500, start_listening) not yet fired
    ntasks,                 \* worker threads started so far
    \* worker_thread, one per dispatched task
    wpc,                    \* "idle" | "start" | "invoke" | "put" | "done"
    user_input,             \* its user_input argument
    history_arg,            \* what self.conversation_history held when the thread was
                            \* given it (the argument is the list itself, not a copy)
    chat_history,           \* its local chat_history (line 119)
    raised,                 \* [is, msg]: whether its try block raised, and str(e)
    ai_text,                \* its local ai_text
    queue,                  \* its Queue
    \* what the host did with each task's result
    handed,                 \* times check_for_response passed it to handle_ai_response
    shown,                  \* "none" | "answer" | "error": which branch displayed it
    waiting,                \* the GUI thread is inside a queue.get() that found no message
    \* memory/long_term.py: module globals
    embedding_model,        \* "None" | "cuda" | "cpu"
    faiss_index,            \* [is_none, vectors]: None, or the index's vectors in order
    doc_store,              \* the list of stored texts
    state_lock,             \* the thread holding state_lock, 0 when free
    \* the files INDEX_FILE and DOCS_FILE: [state: "absent" | "partial" | "ok", data]
    index_file,
    docs_file,
    init_log,               \* which branch of _initialize_memory logged: "none" |
                            \* "loaded" | "new" | "failed"
    \* one tool call per thread
    tpc,                    \* where the thread is in store_memory / retrieve_relevant_memories
    op,                     \* "none" | "store" | "retrieve"
    arg,                    \* text_chunk / query_text
    nres,                   \* n_results
    emb,                    \* the local embedding / query_embedding
    found,                  \* the local indices[0]
    ret,                    \* how the thread's last call ended: "none" | "returned" |
                            \* the exception it raised
    model,                  \* the local model (what get_embedding_model returned)
    \* history of the process and of the one before it
    runs,                   \* [inits, loads]: times lines 38-53 ran and times line 62 or
                            \* 65 assigned embedding_model, in this process
    closed,                 \* [any, docs, vectors]: whether the last process was closed
                            \* with no call under way, the documents whose store_memory
                            \* had returned when it ended, and the vectors it was closed with
    \* memory/memory.py: one AgentEngine and its run
    epc,                    \* "idle" | "decide" | "act" | "returned" | "RecursionError"
    depth,                  \* frames of AgentEngine.run on the stack
    decision,               \* the local decision of the innermost frame
    result,                 \* what the outermost run returned
    entries                 \* len(self.memory.entries)

hostvars == <<current_mode, enabled, input_text, conversation_history, mp_queue,
              timer_active, listening, pending_listen, ntasks>>
workervars == <<wpc, user_input, history_arg, chat_history, raised, ai_text, queue>>
resultvars == <<handed, shown, waiting>>
hostside == <<hostvars, workervars, resultvars>>
globalvars == <<embedding_model, faiss_index, doc_store, state_lock, init_log>>
diskvars == <<index_file, docs_file>>
localvars == <<tpc, op, arg, nres, emb, found, ret, model>>
histvars == <<runs, closed>>
storevars == <<globalvars, diskvars, localvars, histvars>>
enginevars == <<epc, depth, decision, result, entries>>
vars == <<hostside, storevars, enginevars>>

\* --------------------------------------------------------- pure functions

\* str.strip() on the blanks the inputs contain.
RECURSIVE LStrip(_)
LStrip(s) == IF Len(s) > 0 /\ SubSeq(s, 1, 1) = " " THEN LStrip(SubSeq(s, 2, Len(s))) ELSE s
RECURSIVE RStrip(_)
RStrip(s) == IF Len(s) > 0 /\ SubSeq(s, Len(s), Len(s)) = " "
             THEN RStrip(SubSeq(s, 1, Len(s) - 1)) ELSE s
Strip(s) == RStrip(LStrip(s))

\* str.startswith
StartsWith(s, p) == Len(s) >= Len(p) /\ SubSeq(s, 1, Len(p)) = p

\* dict.get(key, default)
DictGet(d, k, default) == IF k \in DOMAIN d THEN d[k] ELSE default

\* "\n".join(f"{msg['role']}: {msg['content']}" for msg in conversation_history)
RECURSIVE JoinHistory(_)
JoinHistory(h) ==
    IF Len(h) = 0 THEN ""
    ELSE IF Len(h) = 1 THEN h[1].role \o ": " \o h[1].content
    ELSE JoinHistory(SubSeq(h, 1, Len(h) - 1)) \o "\n"
         \o h[Len(h)].role \o ": " \o h[Len(h)].content

\* response.get("output", "The agent could not determine a response.")
OutputText(response) ==
    DictGet(response, "output", "The agent could not determine a response.")

\* ai_text = "Error", the exception's text left out.
ErrorText_NoMessage(e) == "Error"

\* ai_text = f"Error: {e}"
ErrorText(e) == "Error: " \o e

\* model.encode([text]): the embedder, as a fixed table of 2-dimensional vectors.
\* The tokenizer of all-MiniLM-L6-v2 lowercases its input (the model is uncased), so
\* texts that differ only in case get the same token ids and the same vector.
Encode(text) ==
    CASE text \in {"fact A", "Fact A"} -> <<1, 0>>
      [] text = "fact B" -> <<0, 1>>
      [] OTHER -> <<0, 0>>

\* IndexFlatL2: squared Euclidean distance.
Dist(u, v) == (u[1] - v[1]) * (u[1] - v[1]) + (u[2] - v[2]) * (u[2] - v[2])

Range(f) == {f[i] : i \in DOMAIN f}
Min(a, b) == IF a <= b THEN a ELSE b
Max(a, b) == IF a >= b THEN a ELSE b

\* faiss_index.search(q, k): the positions (1-based here) of the k nearest vectors,
\* nearest first, the earlier position first among equal distances.
RECURSIVE Search(_, _, _)
Search(vectors, q, k) ==
    IF k = 0 THEN <<>>
    ELSE LET prev == Search(vectors, q, k - 1)
             rest == (1..Len(vectors)) \ Range(prev)
             best == CHOOSE i \in rest : \A j \in rest :
                        \/ Dist(vectors[i], q) < Dist(vectors[j], q)
                        \/ Dist(vectors[i], q) = Dist(vectors[j], q) /\ i <= j
         IN  Append(prev, best)

\* faiss_index.ntotal
Ntotal(ix) == Len(ix.vectors)

\* update_ui_for_mode: the three setEnabled calls.
UpdateUiForMode(mode) ==
    [input_box     |-> mode # "voice_only",
     send_button   |-> mode # "voice_only",
     listen_button |-> mode # "text_only"]

\* set_ui_busy: update_ui_for_mode, then the three setEnabled calls that
\* overwrite it (the "Thinking..." line and the button caption are display only).
SetUiBusy(busy, mode) ==
    [input_box     |-> ~busy /\ mode # "voice_only",
     send_button   |-> ~busy /\ mode # "voice_only",
     listen_button |-> ~busy /\ mode # "text_only"]

\* ------------------------------------------------------------------- Init

HostInit ==
    /\ current_mode = "hybrid"
    /\ enabled = [input_box |-> TRUE, send_button |-> TRUE, listen_button |-> TRUE]
    /\ input_text = ""
    /\ conversation_history = <<>>
    /\ mp_queue = 0
    /\ timer_active = FALSE
    /\ listening = 0
    /\ pending_listen = 0
    /\ ntasks = 0
    /\ wpc = [w \in Tasks |-> "idle"]
    /\ user_input = [w \in Tasks |-> ""]
    /\ history_arg = [w \in Tasks |-> <<>>]
    /\ chat_history = [w \in Tasks |-> ""]
    /\ raised = [w \in Tasks |-> [is |-> FALSE, msg |-> ""]]
    /\ ai_text = [w \in Tasks |-> ""]
    /\ queue = [w \in Tasks |-> <<>>]
    /\ handed = [w \in Tasks |-> 0]
    /\ shown = [w \in Tasks |-> "none"]
    /\ waiting = FALSE

\* Lines 19-22 of long_term.py, run at import; no tool call is in progress.
NoRet == "none"
NeverClosed == [any |-> FALSE, docs |-> <<>>, vectors |-> <<>>]
StoreInit ==
    /\ embedding_model = "None"
    /\ faiss_index = [is_none |-> TRUE, vectors |-> <<>>]
    /\ doc_store = <<>>
    /\ state_lock = 0
    /\ init_log = "none"
    /\ tpc = [t \in Threads |-> "idle"]
    /\ op = [t \in Threads |-> "none"]
    /\ arg = [t \in Threads |-> ""]
    /\ nres = [t \in Threads |-> 0]
    /\ emb = [t \in Threads |-> <<>>]
    /\ found = [t \in Threads |-> <<>>]
    /\ ret = [t \in Threads |-> NoRet]
    /\ model = [t \in Threads |-> "None"]
    /\ runs = [inits |-> 0, loads |-> 0]
    /\ closed = NeverClosed

\* The memory directory of a first start: neither file exists.
AbsentFile == [state |-> "absent", data |-> <<>>]
DiskFresh ==
    /\ index_file = AbsentFile
    /\ docs_file = AbsentFile

\* The memory directory as the first start can find it: each file missing or
\* unreadable.  Every readable file of a run is one store_memory wrote.
StartFiles == {AbsentFile, [state |-> "partial", data |-> <<>>]}
DiskAny ==
    /\ index_file \in StartFiles
    /\ docs_file \in StartFiles

\* AgentEngine.__init__: a new Memory, and no run under way.
EngineInit ==
    /\ epc = "idle"
    /\ depth = 0
    /\ decision = ""
    /\ result = ""
    /\ entries = 0

Init == HostInit /\ StoreInit /\ DiskFresh /\ EngineInit

StoreModelInit == HostInit /\ StoreInit /\ DiskAny /\ EngineInit

\* ------------------------------------------------------- the GUI thread

\* send_message, called with `box` in input_box and the widgets enabled as `en`
\* (what the caller left there).  Sets every host variable but listening and
\* pending_listen, which only its callers touch.
SendMessage(box, en) ==
    LET user_text == Strip(box)
        w == ntasks + 1
    IN  IF user_text = ""
        THEN \* line 209: return
             /\ enabled' = en
             /\ input_text' = box
             /\ UNCHANGED <<current_mode, conversation_history, mp_queue, timer_active,
                            ntasks, workervars>>
        ELSE /\ ntasks < MaxTasks
             /\ enabled' = SetUiBusy(TRUE, current_mode)
             /\ conversation_history' =
                    Append(conversation_history, [role |-> "user", content |-> user_text])
             /\ input_text' = ""
             /\ mp_queue' = w
             /\ queue' = [queue EXCEPT ![w] = <<>>]
             /\ wpc' = [wpc EXCEPT ![w] = "start"]
             /\ user_input' = [user_input EXCEPT ![w] = user_text]
             /\ history_arg' = [history_arg EXCEPT ![w] = conversation_history']
             /\ timer_active' = TRUE
             /\ ntasks' = w
             /\ UNCHANGED <<current_mode, chat_history, raised, ai_text>>

\* The user edits input_box (possible only while it is enabled).
TypeText(t) ==
    /\ enabled.input_box
    /\ input_text' = t
    /\ UNCHANGED <<current_mode, enabled, conversation_history, mp_queue, timer_active,
                   listening, pending_listen, ntasks, workervars, resultvars, storevars, enginevars>>

\* input_box.returnPressed -> send_message
PressReturn ==
    /\ enabled.input_box
    /\ SendMessage(input_text, enabled)
    /\ UNCHANGED <<listening, pending_listen, resultvars, storevars, enginevars>>

\* send_button.clicked -> send_message
ClickSend ==
    /\ enabled.send_button
    /\ SendMessage(input_text, enabled)
    /\ UNCHANGED <<listening, pending_listen, resultvars, storevars, enginevars>>

\* A radio button's toggled signal -> set_interaction_mode(mode) -> update_ui_for_mode.
\* (Checking one radio first unchecks the other, whose toggled handler sets the old
\* mode again; the handler of the newly checked one runs last and decides the state.)
SetInteractionMode(mode) ==
    /\ mode # current_mode
    /\ current_mode' = mode
    /\ enabled' = UpdateUiForMode(mode)
    /\ UNCHANGED <<input_text, conversation_history, mp_queue, timer_active,
                   listening, pending_listen, ntasks, workervars, resultvars, storevars, enginevars>>

\* listen_button.clicked -> start_listening
ClickListen ==
    /\ enabled.listen_button
    /\ listening < MaxListen
    /\ listening' = listening + 1
    /\ enabled' = SetUiBusy(TRUE, current_mode)
    /\ UNCHANGED <<current_mode, input_text, conversation_history, mp_queue, timer_active,
                   pending_listen, ntasks, workervars, resultvars, storevars, enginevars>>

\* QTimer.singleShot(500, self.start_listening) fires.
DelayedStartListening ==
    /\ pending_listen > 0
    /\ listening < MaxListen
    /\ pending_listen' = pending_listen - 1
    /\ listening' = listening + 1
    /\ enabled' = SetUiBusy(TRUE, current_mode)
    /\ UNCHANGED <<current_mode, input_text, conversation_history, mp_queue, timer_active,
                   ntasks, workervars, resultvars, storevars, enginevars>>

\* A listen_and_process thread ends: listen_for_command returned `text` and the host
\* runs on_speech_recognized(text).
OnSpeechRecognized(text) ==
    /\ listening > 0
    /\ IF text # ""
       THEN /\ SendMessage(text, SetUiBusy(FALSE, current_mode))
            /\ listening' = listening - 1
       ELSE IF current_mode = "voice_only"
       THEN \* start_listening again
            /\ enabled' = SetUiBusy(TRUE, current_mode)
            /\ listening' = listening
            /\ UNCHANGED <<current_mode, input_text, conversation_history, mp_queue,
                           timer_active, ntasks, workervars>>
       ELSE /\ enabled' = SetUiBusy(FALSE, current_mode)
            /\ listening' = listening - 1
            /\ UNCHANGED <<current_mode, input_text, conversation_history, mp_queue,
                           timer_active, ntasks, workervars>>
    /\ UNCHANGED <<pending_listen, resultvars, storevars, enginevars>>

\* handle_ai_response(text) for the result of task w (with handle_task_error inlined).
HandleAiResponse(w, text) ==
    /\ enabled' = SetUiBusy(FALSE, current_mode)
    /\ handed' = [handed EXCEPT ![w] = @ + 1]
    /\ IF StartsWith(text, "Error")
       THEN /\ shown' = [shown EXCEPT ![w] = "error"]
            /\ UNCHANGED <<conversation_history, pending_listen>>
       ELSE /\ shown' = [shown EXCEPT ![w] = "answer"]
            /\ conversation_history' =
                   Append(conversation_history, [role |-> "assistant", content |-> text])
            /\ pending_listen' =
                   IF current_mode = "voice_only" THEN pending_listen + 1 ELSE pending_listen

\* response_timer.timeout -> check_for_response, with queue.get() leaving the message
\* in the queue.
CheckForResponse_Peek ==
    /\ timer_active
    /\ IF mp_queue # 0 /\ queue[mp_queue] # <<>>
       THEN /\ HandleAiResponse(mp_queue, Head(queue[mp_queue]))
            /\ UNCHANGED <<timer_active, queue, waiting>>
       ELSE UNCHANGED <<enabled, conversation_history, pending_listen, timer_active,
                        queue, resultvars>>
    /\ UNCHANGED <<current_mode, input_text, mp_queue, listening, ntasks,
                   wpc, user_input, history_arg, chat_history, raised, ai_text, storevars, enginevars>>

\* check_for_response without the empty() test of line 222: get() is called on every
\* tick, and on an empty queue it does not return.
CheckForResponse_GetFirst ==
    /\ timer_active
    /\ ~waiting
    /\ IF mp_queue # 0 /\ queue[mp_queue] # <<>>
       THEN /\ timer_active' = FALSE
            /\ queue' = [queue EXCEPT ![mp_queue] = Tail(@)]
            /\ HandleAiResponse(mp_queue, Head(queue[mp_queue]))
            /\ waiting' = FALSE
       ELSE /\ waiting' = TRUE
            /\ UNCHANGED <<enabled, conversation_history, pending_listen, timer_active,
                           queue, handed, shown>>
    /\ UNCHANGED <<current_mode, input_text, mp_queue, listening, ntasks,
                   wpc, user_input, history_arg, chat_history, raised, ai_text, storevars, enginevars>>

\* response_timer.timeout -> check_for_response.  The GUI thread is the only reader
\* of the queue, so the get() after a false empty() returns at once.
CheckForResponse ==
    /\ timer_active
    /\ IF mp_queue # 0 /\ queue[mp_queue] # <<>>
       THEN /\ timer_active' = FALSE
            /\ queue' = [queue EXCEPT ![mp_queue] = Tail(@)]
            /\ HandleAiResponse(mp_queue, Head(queue[mp_queue]))
            /\ waiting' = FALSE
       ELSE UNCHANGED <<enabled, conversation_history, pending_listen, timer_active,
                        queue, resultvars>>
    /\ UNCHANGED <<current_mode, input_text, mp_queue, listening, ntasks,
                   wpc, user_input, history_arg, chat_history, raised, ai_text, storevars, enginevars>>

\* ---------------------------------------------------------- worker_thread

\* Line 119: the worker reads the list object the host passed it.
WorkerReadHistory(w) ==
    /\ wpc[w] = "start"
    /\ chat_history' = [chat_history EXCEPT ![w] = JoinHistory(conversation_history)]
    /\ wpc' = [wpc EXCEPT ![w] = "invoke"]
    /\ UNCHANGED <<hostvars, user_input, history_arg, raised, ai_text, queue, resultvars, storevars, enginevars>>

\* Lines 120-121: agent_executor.invoke returns `response`.
WorkerReturn(w, response) ==
    /\ wpc[w] = "invoke"
    /\ ai_text' = [ai_text EXCEPT ![w] = OutputText(response)]
    /\ wpc' = [wpc EXCEPT ![w] = "put"]
    /\ UNCHANGED <<hostvars, user_input, history_arg, chat_history, raised, queue, resultvars, storevars, enginevars>>

\* Lines 122-124 with the except clause re-raising: the thread dies without a put.
WorkerRaise_Propagates(w, msg) ==
    /\ wpc[w] \in {"start", "invoke"}
    /\ raised' = [raised EXCEPT ![w] = [is |-> TRUE, msg |-> msg]]
    /\ wpc' = [wpc EXCEPT ![w] = "done"]
    /\ UNCHANGED <<hostvars, user_input, history_arg, chat_history, ai_text, queue, resultvars, storevars, enginevars>>

\* Lines 122-124: something in the try block (building the agent, or the pipeline
\* and the tools it calls) raises Exception(msg).
WorkerRaise(w, msg) ==
    /\ wpc[w] \in {"start", "invoke"}
    /\ raised' = [raised EXCEPT ![w] = [is |-> TRUE, msg |-> msg]]
    /\ ai_text' = [ai_text EXCEPT ![w] = ErrorText(msg)]
    /\ wpc' = [wpc EXCEPT ![w] = "put"]
    /\ UNCHANGED <<hostvars, user_input, history_arg, chat_history, queue, resultvars, storevars, enginevars>>

\* Line 125: queue.put(ai_text); the thread ends.
WorkerPut(w) ==
    /\ wpc[w] = "put"
    /\ queue' = [queue EXCEPT ![w] = Append(@, ai_text[w])]
    /\ wpc' = [wpc EXCEPT ![w] = "done"]
    /\ UNCHANGED <<hostvars, user_input, history_arg, chat_history, raised, ai_text, resultvars, storevars, enginevars>>

\* ------------------------------------------------ memory/long_term.py

\* A call returns to the pipeline.
Return(t) ==
    /\ tpc' = [tpc EXCEPT ![t] = "idle"]
    /\ ret' = [ret EXCEPT ![t] = "returned"]
    /\ op' = [op EXCEPT ![t] = "none"]
    /\ arg' = [arg EXCEPT ![t] = ""]
    /\ nres' = [nres EXCEPT ![t] = 0]
    /\ emb' = [emb EXCEPT ![t] = <<>>]
    /\ found' = [found EXCEPT ![t] = <<>>]
    /\ model' = [model EXCEPT ![t] = "None"]

\* A call ends with exception `e` propagating to the pipeline.
Raise(t, e) ==
    /\ tpc' = [tpc EXCEPT ![t] = "idle"]
    /\ ret' = [ret EXCEPT ![t] = e]
    /\ op' = [op EXCEPT ![t] = "none"]
    /\ arg' = [arg EXCEPT ![t] = ""]
    /\ nres' = [nres EXCEPT ![t] = 0]
    /\ emb' = [emb EXCEPT ![t] = <<>>]
    /\ found' = [found EXCEPT ![t] = <<>>]
    /\ model' = [model EXCEPT ![t] = "None"]

\* The thread moves to `to`; its other locals stay.
Goto(t, to) ==
    /\ tpc' = [tpc EXCEPT ![t] = to]
    /\ UNCHANGED <<op, arg, nres, emb, found, ret, model>>

\* The bound on the store model: a store_memory call begins only while every list it
\* can grow is, with the calls already under way, shorter than MaxDocs.
StoresUnderWay ==
    Cardinality({u \in Threads :
        op[u] = "store" /\ tpc[u] \in {"init", "init_locked", "model", "model_locked",
                                       "encode", "lock", "add"}})
StoreRoom ==
    Max(Max(Ntotal(faiss_index), Len(doc_store)),
        Max(Len(index_file.data), Len(docs_file.data))) + StoresUnderWay < MaxDocs

\* The pipeline calls store_memory(text).
StartStore(t, text) ==
    /\ tpc[t] = "idle"
    /\ StoreRoom
    /\ tpc' = [tpc EXCEPT ![t] = "init"]
    /\ op' = [op EXCEPT ![t] = "store"]
    /\ arg' = [arg EXCEPT ![t] = text]
    /\ ret' = [ret EXCEPT ![t] = NoRet]
    /\ UNCHANGED <<nres, emb, found, model, globalvars, diskvars, hostside, enginevars, histvars>>

\* The pipeline calls retrieve_relevant_memories(query, n).
StartRetrieve(t, query, n) ==
    /\ tpc[t] = "idle"
    /\ tpc' = [tpc EXCEPT ![t] = "init"]
    /\ op' = [op EXCEPT ![t] = "retrieve"]
    /\ arg' = [arg EXCEPT ![t] = query]
    /\ nres' = [nres EXCEPT ![t] = n]
    /\ ret' = [ret EXCEPT ![t] = NoRet]
    /\ UNCHANGED <<emb, found, model, globalvars, diskvars, hostside, enginevars, histvars>>

\* _initialize_memory, line 36: with state_lock (blocks while another thread holds it).
InitAcquire(t) ==
    /\ tpc[t] = "init"
    /\ state_lock = 0
    /\ state_lock' = t
    /\ Goto(t, "init_locked")
    /\ UNCHANGED <<embedding_model, faiss_index, doc_store, init_log, diskvars, hostside, enginevars, histvars>>

\* Lines 39-53: what the try block and its except clause leave in the globals.
\* os.path.exists is true of a partly written file; faiss.read_index and json.load
\* raise on one.
EmptyIndex == [is_none |-> FALSE, vectors |-> <<>>]
LoadOrCreate(ixf, dcf) ==
    IF ixf.state # "absent" /\ dcf.state # "absent"
    THEN IF ixf.state = "ok" /\ dcf.state = "ok"
         THEN [index |-> [is_none |-> FALSE, vectors |-> ixf.data],
               docs  |-> dcf.data, log |-> "loaded"]
         ELSE [index |-> EmptyIndex, docs |-> <<>>, log |-> "failed"]
    ELSE [index |-> EmptyIndex, docs |-> <<>>, log |-> "new"]

\* Lines 37-53 without the except clause: a failed load propagates, leaving what
\* was assigned before it.
InitBody_NoExcept(t) ==
    /\ tpc[t] = "init_locked"
    /\ state_lock' = 0
    /\ IF faiss_index.is_none /\ index_file.state # "absent" /\ docs_file.state # "absent"
          /\ ~(index_file.state = "ok" /\ docs_file.state = "ok")
       THEN /\ faiss_index' = IF index_file.state = "ok"
                              THEN [is_none |-> FALSE, vectors |-> index_file.data]
                              ELSE faiss_index
            /\ Raise(t, "LoadError")
            /\ runs' = [runs EXCEPT !.inits = @ + 1]
            /\ UNCHANGED <<doc_store, init_log>>
       ELSE /\ IF faiss_index.is_none
               THEN LET r == LoadOrCreate(index_file, docs_file)
                    IN  /\ faiss_index' = r.index
                        /\ doc_store' = r.docs
                        /\ init_log' = r.log
                        /\ runs' = [runs EXCEPT !.inits = @ + 1]
               ELSE UNCHANGED <<faiss_index, doc_store, init_log, runs>>
            /\ Goto(t, "model")
    /\ UNCHANGED <<embedding_model, diskvars, hostside, enginevars, closed>>

\* Lines 37-53 without the test of line 37: every call loads or creates the store anew.
InitBody_Always(t) ==
    /\ tpc[t] = "init_locked"
    /\ LET r == LoadOrCreate(index_file, docs_file)
       IN  /\ faiss_index' = r.index
           /\ doc_store' = r.docs
           /\ init_log' = r.log
           /\ runs' = [runs EXCEPT !.inits = @ + 1]
    /\ state_lock' = 0
    /\ Goto(t, "model")
    /\ UNCHANGED <<embedding_model, diskvars, hostside, enginevars, closed>>

\* _initialize_memory, lines 37-53, and the release of state_lock.
InitBody(t) ==
    /\ tpc[t] = "init_locked"
    /\ IF faiss_index.is_none
       THEN LET r == LoadOrCreate(index_file, docs_file)
            IN  /\ faiss_index' = r.index
                /\ doc_store' = r.docs
                /\ init_log' = r.log
                /\ runs' = [runs EXCEPT !.inits = @ + 1]
       ELSE UNCHANGED <<faiss_index, doc_store, init_log, runs>>
    /\ state_lock' = 0
    /\ Goto(t, "model")
    /\ UNCHANGED <<embedding_model, diskvars, hostside, enginevars, closed>>

\* get_embedding_model, line 58: with state_lock.
ModelAcquire(t) ==
    /\ tpc[t] = "model"
    /\ state_lock = 0
    /\ state_lock' = t
    /\ Goto(t, "model_locked")
    /\ UNCHANGED <<embedding_model, faiss_index, doc_store, init_log, diskvars, hostside, enginevars, histvars>>

\* The thread leaves get_embedding_model with `m` and goes on in its caller.
GotModel(t, m) ==
    /\ model' = [model EXCEPT ![t] = m]
    /\ tpc' = [tpc EXCEPT ![t] = IF op[t] = "store" THEN "encode" ELSE "check"]
    /\ UNCHANGED <<op, arg, nres, emb, found, ret>>

\* Lines 59-66 without the test of line 59: every call loads a model.
ModelBody_NoCheck(t, cuda_ok, cpu_ok) ==
    /\ tpc[t] = "model_locked"
    /\ state_lock' = 0
    /\ IF cuda_ok \/ cpu_ok
       THEN /\ embedding_model' = IF cuda_ok THEN "cuda" ELSE "cpu"
            /\ runs' = [runs EXCEPT !.loads = @ + 1]
            /\ GotModel(t, embedding_model')
       ELSE /\ Raise(t, "ModelLoadError")
            /\ UNCHANGED <<embedding_model, runs>>
    /\ UNCHANGED <<faiss_index, doc_store, init_log, diskvars, hostside, enginevars, closed>>

\* get_embedding_model, lines 59-66, and the release of state_lock.  cuda_ok and
\* cpu_ok: whether SentenceTransformer(..., device='cuda') and SentenceTransformer(...)
\* succeed.  When both fail, the exception of line 65 leaves the function.
ModelBody(t, cuda_ok, cpu_ok) ==
    /\ tpc[t] = "model_locked"
    /\ state_lock' = 0
    /\ IF embedding_model # "None"
       THEN /\ GotModel(t, embedding_model)
            /\ UNCHANGED <<embedding_model, runs>>
       ELSE IF cuda_ok \/ cpu_ok
       THEN /\ embedding_model' = IF cuda_ok THEN "cuda" ELSE "cpu"
            /\ runs' = [runs EXCEPT !.loads = @ + 1]
            /\ GotModel(t, embedding_model')
       ELSE /\ Raise(t, "ModelLoadError")
            /\ UNCHANGED <<embedding_model, runs>>
    /\ UNCHANGED <<faiss_index, doc_store, init_log, diskvars, hostside, enginevars, closed>>

\* store_memory, lines 72-75.
StoreEncode(t) ==
    /\ tpc[t] = "encode"
    /\ IF faiss_index.is_none
       THEN Return(t)
       ELSE /\ emb' = [emb EXCEPT ![t] = Encode(arg[t])]
            /\ tpc' = [tpc EXCEPT ![t] = "lock"]
            /\ UNCHANGED <<op, arg, nres, found, ret, model>>
    /\ UNCHANGED <<globalvars, diskvars, hostside, enginevars, histvars>>

\* store_memory, line 77: with state_lock.
StoreAcquire(t) ==
    /\ tpc[t] = "lock"
    /\ state_lock = 0
    /\ state_lock' = t
    /\ Goto(t, "add")
    /\ UNCHANGED <<embedding_model, faiss_index, doc_store, init_log, diskvars, hostside, enginevars, histvars>>

\* Line 78: faiss_index.add(embedding)
StoreAdd(t) ==
    /\ tpc[t] = "add"
    /\ faiss_index' = [faiss_index EXCEPT !.vectors = Append(@, emb[t])]
    /\ Goto(t, "append")
    /\ UNCHANGED <<embedding_model, doc_store, state_lock, init_log, diskvars, hostside, enginevars, histvars>>

\* Line 79 left out: the text never reaches the list.
StoreAppend_Skipped(t) ==
    /\ tpc[t] = "append"
    /\ Goto(t, "write_index")
    /\ UNCHANGED <<globalvars, diskvars, hostside, enginevars, histvars>>

\* Line 79 as doc_store.insert(0, text_chunk): the new text goes in front.
StoreAppend_Front(t) ==
    /\ tpc[t] = "append"
    /\ doc_store' = <<arg[t]>> \o doc_store
    /\ Goto(t, "write_index")
    /\ UNCHANGED <<embedding_model, faiss_index, state_lock, init_log, diskvars, hostside, enginevars,
                   histvars>>

\* Line 79: doc_store.append(text_chunk)
StoreAppend(t) ==
    /\ tpc[t] = "append"
    /\ doc_store' = Append(doc_store, arg[t])
    /\ Goto(t, "write_index")
    /\ UNCHANGED <<embedding_model, faiss_index, state_lock, init_log, diskvars, hostside, enginevars, histvars>>

\* Line 82: faiss.write_index opens INDEX_FILE for writing, which empties it ...
WriteIndexBegin(t) ==
    /\ tpc[t] = "write_index"
    /\ index_file' = [state |-> "partial", data |-> <<>>]
    /\ Goto(t, "write_index_end")
    /\ UNCHANGED <<globalvars, docs_file, hostside, enginevars, histvars>>

\* ... and writes the index out.
WriteIndexEnd(t) ==
    /\ tpc[t] = "write_index_end"
    /\ index_file' = [state |-> "ok", data |-> faiss_index.vectors]
    /\ Goto(t, "open_docs")
    /\ UNCHANGED <<globalvars, docs_file, hostside, enginevars, histvars>>

\* Line 83: open(DOCS_FILE, 'w') empties the file.
OpenDocs(t) ==
    /\ tpc[t] = "open_docs"
    /\ docs_file' = [state |-> "partial", data |-> <<>>]
    /\ Goto(t, "dump")
    /\ UNCHANGED <<globalvars, index_file, hostside, enginevars, histvars>>

\* Lines 84-85 with json.dump left out: the file stays as open(..., 'w') left it.
DumpDocs_NotDumped(t) ==
    /\ tpc[t] = "dump"
    /\ state_lock' = 0
    /\ Return(t)
    /\ UNCHANGED <<embedding_model, faiss_index, doc_store, init_log, diskvars, hostside, enginevars,
                   histvars>>

\* Lines 84-85: json.dump, the file is closed, state_lock is released, the call returns.
DumpDocs(t) ==
    /\ tpc[t] = "dump"
    /\ docs_file' = [state |-> "ok", data |-> doc_store]
    /\ state_lock' = 0
    /\ Return(t)
    /\ UNCHANGED <<embedding_model, faiss_index, doc_store, init_log, index_file, hostside, enginevars, histvars>>

\* Lines 82-84 raising while state_lock is kept: the next thread at a `with
\* state_lock` waits for a release that never comes.
PersistRaise_LockKept(t) ==
    /\ tpc[t] \in {"write_index", "write_index_end", "open_docs", "dump"}
    /\ Raise(t, "OSError")
    /\ UNCHANGED <<globalvars, diskvars, hostside, enginevars, histvars>>

\* Lines 82-84: faiss.write_index, open or json.dump raises (disk full, no
\* permission).  The exception leaves the with block of line 77, which releases
\* state_lock; the files stay as the failed write left them, the vector and the
\* text stay in the index and the list.
PersistRaise(t) ==
    /\ tpc[t] \in {"write_index", "write_index_end", "open_docs", "dump"}
    /\ state_lock' = 0
    /\ Raise(t, "OSError")
    /\ UNCHANGED <<embedding_model, faiss_index, doc_store, init_log, diskvars, hostside, enginevars,
                   histvars>>

\* retrieve_relevant_memories, lines 91-95 (no lock is taken from here on).
RetrieveCheck(t) ==
    /\ tpc[t] = "check"
    /\ IF faiss_index.is_none \/ Ntotal(faiss_index) = 0
       THEN Return(t)
       ELSE /\ emb' = [emb EXCEPT ![t] = Encode(arg[t])]
            /\ tpc' = [tpc EXCEPT ![t] = "search"]
            /\ UNCHANGED <<op, arg, nres, found, ret, model>>
    /\ UNCHANGED <<globalvars, diskvars, hostside, enginevars, histvars>>

\* Line 98: faiss_index.search(query_embedding, k=min(n_results, faiss_index.ntotal))
RetrieveSearch(t) ==
    /\ tpc[t] = "search"
    /\ found' = [found EXCEPT ![t] =
                    Search(faiss_index.vectors, emb[t], Min(nres[t], Ntotal(faiss_index)))]
    /\ tpc' = [tpc EXCEPT ![t] = "map"]
    /\ UNCHANGED <<op, arg, nres, emb, ret, model, globalvars, diskvars, hostside, enginevars, histvars>>

\* Line 101: relevant_docs, the list the call at "map" returns.
RelevantDocs(t) == [k \in DOMAIN found[t] |-> doc_store[found[t][k]]]

\* Lines 101-103: [doc_store[i] for i in indices[0]], IndexError on a position the
\* list does not have.
RetrieveMap(t) ==
    /\ tpc[t] = "map"
    /\ IF \A k \in DOMAIN found[t] : found[t][k] <= Len(doc_store)
       THEN Return(t)
       ELSE Raise(t, "IndexError")
    /\ UNCHANGED <<globalvars, diskvars, hostside, enginevars, histvars>>

\* The process ends and a new one imports long_term.py: the globals are those of
\* lines 19-22 again, the files are what the old process left.
NewProcess ==
    /\ embedding_model' = "None"
    /\ faiss_index' = [is_none |-> TRUE, vectors |-> <<>>]
    /\ doc_store' = <<>>
    /\ state_lock' = 0
    /\ init_log' = "none"
    /\ tpc' = [t \in Threads |-> "idle"]
    /\ op' = [t \in Threads |-> "none"]
    /\ arg' = [t \in Threads |-> ""]
    /\ nres' = [t \in Threads |-> 0]
    /\ emb' = [t \in Threads |-> <<>>]
    /\ found' = [t \in Threads |-> <<>>]
    /\ ret' = [t \in Threads |-> NoRet]
    /\ model' = [t \in Threads |-> "None"]
    /\ runs' = [inits |-> 0, loads |-> 0]
    /\ UNCHANGED <<diskvars, hostside, enginevars>>

\* The window is closed while no tool call is under way, and the program is started again.
Restart ==
    /\ \A t \in Threads : tpc[t] = "idle"
    /\ ~faiss_index.is_none
    /\ closed' = [any |-> TRUE, docs |-> doc_store, vectors |-> faiss_index.vectors]
    /\ NewProcess

\* The documents whose store_memory has returned, in this process or an earlier one:
\* the log without the entry of a call that is past line 79 and has not returned;
\* those of the last process when this one has not loaded the store.
Acknowledged ==
    IF faiss_index.is_none THEN closed.docs
    ELSE IF \E t \in Threads : tpc[t] \in {"write_index", "write_index_end", "open_docs", "dump"}
    THEN SubSeq(doc_store, 1, Len(doc_store) - 1)
    ELSE doc_store

\* The process ends while a tool call is under way (the worker threads are daemon
\* threads: closing the window, a kill or a power loss ends them where they are).
Crash ==
    /\ \E t \in Threads : tpc[t] # "idle"
    /\ closed' = [any |-> FALSE, docs |-> Acknowledged, vectors |-> <<>>]
    /\ NewProcess

\* ------------------------------------------------ memory/memory.py

\* decision.split(':', 1)[1]: what follows the first colon.
RECURSIVE AfterColon(_)
AfterColon(s) ==
    IF Len(s) = 0 THEN ""
    ELSE IF SubSeq(s, 1, 1) = ":" THEN SubSeq(s, 2, Len(s))
    ELSE AfterColon(SubSeq(s, 2, Len(s)))

\* Lines 107-110, with Localizer.locate returning (0, 0).
ClickResult(d) == "Clicked " \o Strip(AfterColon(d)) \o " at (0,0)"

\* A caller calls run(user_input, history) on a new engine.
EngineRun ==
    /\ epc = "idle"
    /\ epc' = "decide"
    /\ depth' = 1
    /\ UNCHANGED <<decision, result, entries, hostside, storevars>>

\* Line 104: policy.next_step adds the input and its decision to the memory and
\* returns the decision.
PolicyNextStep(d) ==
    /\ epc = "decide"
    /\ decision' = d
    /\ entries' = entries + 2
    /\ epc' = "act"
    /\ UNCHANGED <<depth, result, hostside, storevars>>

\* return <value>: every frame on the stack returns what its callee returned.
EngineReturn(value) ==
    /\ epc' = "returned"
    /\ result' = value
    /\ depth' = 0

\* return self.run(user_input, history): one more frame, or RecursionError when the
\* interpreter allows none.
EngineRecurse ==
    /\ IF depth < MaxDepth
       THEN epc' = "decide" /\ depth' = depth + 1
       ELSE epc' = "RecursionError" /\ depth' = 0
    /\ UNCHANGED result

\* Lines 106-119, the validator answering `ok`.
EngineAct(ok) ==
    /\ epc = "act"
    /\ IF StartsWith(decision, "Action: Click")
       THEN /\ entries' = entries + 1
            /\ IF ok THEN EngineReturn(ClickResult(decision)) ELSE EngineRecurse
       ELSE /\ entries' = entries
            /\ IF ok THEN EngineReturn(decision) ELSE EngineRecurse
    /\ UNCHANGED <<decision, hostside, storevars>>

\* The engine is dropped and a new AgentEngine is made.
EngineNew ==
    /\ epc \in {"returned", "RecursionError"}
    /\ epc' = "idle"
    /\ depth' = 0
    /\ decision' = ""
    /\ result' = ""
    /\ entries' = 0
    /\ UNCHANGED <<hostside, storevars>>

\* ------------------------------------------------------ the host's runs

Next ==
    \/ \E t \in UserTexts : TypeText(t)
    \/ PressReturn
    \/ ClickSend
    \/ \E m \in Modes : SetInteractionMode(m)
    \/ ClickListen
    \/ DelayedStartListening
    \/ \E t \in SpeechTexts : OnSpeechRecognized(t)
    \/ CheckForResponse
    \/ \E w \in Tasks : WorkerReadHistory(w)
    \/ \E w \in Tasks, r \in Responses : WorkerReturn(w, r)
    \/ \E w \in Tasks, m \in ErrMsgs : WorkerRaise(w, m)
    \/ \E w \in Tasks : WorkerPut(w)

Spec == Init /\ [][Next]_vars

\* The same runs with the scheduling the program has: the 100 ms response_timer keeps
\* firing while it is active, every started thread keeps running, and the pipeline of
\* every task comes to an end.
FairSpec ==
    /\ Spec
    /\ WF_vars(CheckForResponse)
    /\ \A w \in Tasks :
          /\ WF_vars(WorkerReadHistory(w))
          /\ WF_vars(\E r \in Responses : WorkerReturn(w, r))
          /\ WF_vars(WorkerPut(w))

\* ----------------------------------------------------- the store's runs

\* The pipeline calls a memory tool.
ToolCall(texts, queries) ==
    \/ \E t \in Threads, x \in texts : StartStore(t, x)
    \/ \E t \in Threads, x \in queries, n \in NResults : StartRetrieve(t, x, n)

\* A thread takes the next step of its call, or the program is closed and started again.
ToolStep ==
    \/ \E t \in Threads : InitAcquire(t)
    \/ \E t \in Threads : InitBody(t)
    \/ \E t \in Threads : ModelAcquire(t)
    \/ \E t \in Threads, cuda_ok \in BOOLEAN, cpu_ok \in BOOLEAN : ModelBody(t, cuda_ok, cpu_ok)
    \/ \E t \in Threads : StoreEncode(t)
    \/ \E t \in Threads : StoreAcquire(t)
    \/ \E t \in Threads : StoreAdd(t)
    \/ \E t \in Threads : StoreAppend(t)
    \/ \E t \in Threads : WriteIndexBegin(t)
    \/ \E t \in Threads : WriteIndexEnd(t)
    \/ \E t \in Threads : OpenDocs(t)
    \/ \E t \in Threads : DumpDocs(t)
    \/ \E t \in Threads : RetrieveCheck(t)
    \/ \E t \in Threads : RetrieveSearch(t)
    \/ \E t \in Threads : RetrieveMap(t)
    \/ Restart

StoreNext == ToolCall(StoreTexts, QueryTexts) \/ ToolStep

\* One process after another over the same memory directory, none ended mid-call.
StoreSpec == StoreModelInit /\ [][StoreNext]_vars

\* The same, with processes that can end at any point of a call.
CrashNext == ToolCall(CrashTexts, CrashTexts) \/ ToolStep \/ Crash
CrashSpec == StoreModelInit /\ [][CrashNext]_vars

\* One process of the store with writes that can fail, and the scheduling of its threads.  A thread
\* that can run does run (weak fairness of its steps).  A thread blocked at a `with
\* state_lock` gets the lock at one of the releases (strong fairness of its acquire):
\* every worker thread makes finitely many tool calls and ends, so no thread can
\* take the lock ahead of a waiting one for ever.
LockText == "fact A"
Acquire(t) == InitAcquire(t) \/ ModelAcquire(t) \/ StoreAcquire(t)
ThreadStep(t) ==
    \/ InitBody(t)
    \/ \E cuda_ok \in BOOLEAN, cpu_ok \in BOOLEAN : ModelBody(t, cuda_ok, cpu_ok)
    \/ StoreEncode(t)
    \/ StoreAdd(t)
    \/ StoreAppend(t)
    \/ WriteIndexBegin(t)
    \/ WriteIndexEnd(t)
    \/ OpenDocs(t)
    \/ DumpDocs(t)
    \/ RetrieveCheck(t)
    \/ RetrieveSearch(t)
    \/ RetrieveMap(t)
LockNext ==
    \/ \E t \in Threads : StartStore(t, LockText)
    \/ \E t \in Threads : StartRetrieve(t, LockText, 1)
    \/ \E t \in Threads : Acquire(t)
    \/ \E t \in Threads : ThreadStep(t)
    \/ \E t \in Threads : PersistRaise(t)
LockSpec ==
    /\ StoreModelInit
    /\ [][LockNext]_vars
    /\ \A t \in Threads : WF_vars(ThreadStep(t)) /\ SF_vars(Acquire(t))

\* ------------------------------------------------ the engine's runs

EngineNext ==
    \/ EngineRun
    \/ \E d \in Decisions : PolicyNextStep(d)
    \/ \E ok \in ValidatorAnswers : EngineAct(ok)
    \/ EngineNew

EngineSpec == Init /\ [][EngineNext]_vars

\* ======================================================= the claims

\* A task is outstanding from its dispatch until check_for_response has passed its
\* result on.
Outstanding(w) == wpc[w] # "idle" /\ handed[w] = 0

\* The messages task w's worker has put on its queue so far: those still in the
\* queue and those check_for_response has taken out.
Written(w) == Len(queue[w]) + handed[w]

\* str.__contains__
Contains(s, p) == \E i \in 1..(Len(s) - Len(p) + 1) : SubSeq(s, i, i + Len(p) - 1) = p

\* C1: at most one dispatched task is outstanding at any time: send_message never
\* starts a worker while an earlier worker's result has not been consumed.
C1_AtMostOneOutstanding == Cardinality({w \in Tasks : Outstanding(w)}) <= 1

\* C2: whenever state_lock is free (and the store is initialized), the index holds as
\* many vectors as the document log holds texts, and vector i is the embedding of
\* document i.
C2_IndexMatchesLog ==
    (state_lock = 0 /\ ~faiss_index.is_none) =>
        /\ Ntotal(faiss_index) = Len(doc_store)
        /\ \A i \in 1..Len(doc_store) : faiss_index.vectors[i] = Encode(doc_store[i])
\* Two different texts were stored, by one thread or by two, and the lock is free.
C2_Witness ==
    /\ state_lock = 0
    /\ Len(doc_store) = 2
    /\ doc_store[1] # doc_store[2]
    /\ \A t \in Threads : ret[t] = "returned"

\* C3: a worker never writes two messages, has written exactly one when it has
\* ended and none before, and that one is its ai_text: the pipeline's text when the
\* pipeline returned, the error text when it raised.
C3_ExactlyOneMessage ==
    \A w \in Tasks :
        /\ Written(w) <= 1
        /\ (wpc[w] = "done") <=> (Written(w) = 1)
        /\ (wpc[w] = "done" /\ handed[w] = 0) => queue[w] = <<ai_text[w]>>
\* One worker ended after its pipeline raised and another after its pipeline returned.
C3_Witness ==
    \E w1, w2 \in Tasks :
        /\ wpc[w1] = "done" /\ raised[w1].is /\ Written(w1) = 1
        /\ wpc[w2] = "done" /\ ~raised[w2].is /\ Written(w2) = 1

\* C4: an exception raised in the try block of worker_thread never ends the worker
\* without a message: the worker goes on to put a text that carries the exception's
\* message, and the host shows that text through handle_task_error.
C4_ExceptionBecomesFailure ==
    \A w \in Tasks :
        raised[w].is =>
            /\ wpc[w] \in {"put", "done"}
            /\ Contains(ai_text[w], raised[w].msg)
            /\ (wpc[w] = "done" /\ handed[w] = 0) => queue[w] = <<ai_text[w]>>
            /\ handed[w] > 0 => shown[w] = "error"
\* A pipeline raised "boom" and the host has shown the failure.
C4_Witness ==
    \E w \in Tasks :
        raised[w].is /\ raised[w].msg = "boom" /\ handed[w] = 1 /\ shown[w] = "error"

\* C5: every dispatched task's result is eventually passed to handle_ai_response.
C5_EveryResultDelivered ==
    \A w \in Tasks : [](wpc[w] # "idle" => <>(handed[w] > 0))

\* A poll while the polled queue is empty hands nothing over; a result is handed
\* to handle_ai_response only by taking it out of the polled queue, which stops the
\* timer; no result is handed over twice; and the timer only ever polls a queue
\* whose result has not been consumed.
C6_PollStep ==
    /\ (timer_active /\ mp_queue # 0 /\ queue[mp_queue] = <<>>) =>
            (handed' = handed /\ shown' = shown)
    /\ \A w \in Tasks :
            handed'[w] # handed[w] =>
                /\ w = mp_queue
                /\ timer_active /\ ~timer_active'
                /\ queue[w] # <<>>
                /\ queue'[w] = Tail(queue[w])
                /\ handed'[w] = handed[w] + 1
C6_PollState ==
    /\ \A w \in Tasks : handed[w] <= 1 /\ (shown[w] = "none" <=> handed[w] = 0)
    /\ timer_active => (mp_queue # 0 /\ handed[mp_queue] = 0)
\* C6: polling yields nothing while the polled queue is empty, and each result is
\* taken out and handed to handle_ai_response once, never twice, after which its
\* queue is no longer polled (C6_PollState in every state, C6_PollStep in every step).
C6_PollOnceOnly == [](C6_PollState) /\ [][C6_PollStep]_vars
\* A result has been taken out of its queue and handed over, and polling has stopped.
C6_Witness ==
    \E w \in Tasks : handed[w] = 1 /\ queue[w] = <<>> /\ wpc[w] = "done" /\ ~timer_active

\* C7: while a task is outstanding, a send_message is rejected: no step starts
\* another worker or replaces mp_queue.
C7_SecondDispatchRejected ==
    [][(\E w \in Tasks : Outstanding(w)) => (ntasks' = ntasks /\ mp_queue' = mp_queue)]_vars

\* C8: a retrieve_relevant_memories call that is past its initialization never finds
\* an index whose size differs from the length of the document log, and never ends
\* in IndexError for a position the log does not have.
C8_RecallSerialized ==
    \A t \in Threads :
        /\ (op[t] = "retrieve" /\ tpc[t] \in {"check", "search", "map"}) =>
                Ntotal(faiss_index) = Len(doc_store)
        /\ ret[t] # "IndexError"

\* The step of _initialize_memory that loads or creates the store.
LoadStep(t) == tpc[t] = "init_locked" /\ faiss_index.is_none /\ ~faiss_index'.is_none
\* INDEX_FILE and DOCS_FILE are both whole and hold equally many entries.
ConsistentPair == /\ index_file.state = "ok" /\ docs_file.state = "ok"
                  /\ Len(index_file.data) = Len(docs_file.data)

\* C9: _initialize_memory leaves an index as long as the document log, and an empty
\* store whenever a file is missing or unreadable or the two files disagree.
C9_LoadResetsBadPair ==
    [][\A t \in Threads :
          LoadStep(t) =>
              /\ Ntotal(faiss_index') = Len(doc_store')
              /\ ~ConsistentPair => (faiss_index' = EmptyIndex /\ doc_store' = <<>>)]_vars

\* When INDEX_FILE or DOCS_FILE is missing or unreadable, _initialize_memory
\* leaves an empty store and goes on to the next line of its caller instead of
\* raising; no call ever ends in an exception from loading; and the store started
\* that way keeps index and document log in step whenever the lock is free.
C10_LoadStep ==
    \A t \in Threads :
        (LoadStep(t) /\ (index_file.state # "ok" \/ docs_file.state # "ok")) =>
            /\ faiss_index' = EmptyIndex
            /\ doc_store' = <<>>
            /\ tpc'[t] = "model"
            /\ ret'[t] = "none"
C10_State ==
    /\ \A t \in Threads : ret[t] # "LoadError"
    /\ (init_log \in {"new", "failed"} /\ state_lock = 0) =>
            Ntotal(faiss_index) = Len(doc_store)
\* C10: initializing the store never raises: from a missing or unreadable file
\* _initialize_memory yields an empty store that works from then on (C10_State in
\* every state, C10_LoadStep in every step).
C10_InitNeverRaises == [](C10_State) /\ [][C10_LoadStep]_vars
\* A store that started empty because a file was unreadable has since taken a text
\* and written both files, and a retrieve on it has returned.
C10_Witness ==
    /\ init_log = "failed"
    /\ state_lock = 0
    /\ Len(doc_store) = 1
    /\ docs_file = [state |-> "ok", data |-> doc_store]
    /\ index_file = [state |-> "ok", data |-> faiss_index.vectors]
    /\ \E t \in Threads : ret[t] = "returned" /\ tpc[t] = "idle"

\* C11: when store_memory returns normally, both files are whole, DOCS_FILE holds
\* the in-memory document log and INDEX_FILE the in-memory index's vectors, the text
\* just stored and its vector being the last entry of each.
C11_PersistedOnReturn ==
    [][\A t \in Threads :
          (op[t] = "store" /\ tpc[t] # "idle" /\ ret'[t] = "returned") =>
              /\ docs_file' = [state |-> "ok", data |-> doc_store']
              /\ index_file' = [state |-> "ok", data |-> faiss_index'.vectors]
              /\ Len(doc_store') > 0
              /\ doc_store'[Len(doc_store')] = arg[t]
              /\ faiss_index'.vectors[Len(doc_store')] = Encode(arg[t])]_vars
\* A store created new has taken two texts; the last store_memory has returned and
\* the files hold both.
C11_Witness ==
    /\ init_log = "new"
    /\ \A t \in Threads : tpc[t] = "idle"
    /\ Len(doc_store) = 2
    /\ docs_file = [state |-> "ok", data |-> doc_store]
    /\ index_file = [state |-> "ok", data |-> faiss_index.vectors]

\* The value a retrieve_relevant_memories call at line 101 is about to return is
\* the one-element list [x].
RecallsOnly(t, x) ==
    /\ \A k \in DOMAIN found[t] : found[t][k] <= Len(doc_store)
    /\ RelevantDocs(t) = <<x>>

\* The store a reopened process loads is the store the closed process left: the same
\* documents in the same order, and the same vectors.
C12_ReopenStep ==
    \A t \in Threads :
        (LoadStep(t) /\ closed.any) =>
            /\ doc_store' = closed.docs
            /\ faiss_index'.vectors = closed.vectors
\* In a reopened process, a recall with k = 1 of a text stored before closing
\* returns that text.
C12_RecallState ==
    \A t \in Threads :
        (closed.any /\ op[t] = "retrieve" /\ tpc[t] = "map" /\ nres[t] = 1
            /\ arg[t] \in Range(closed.docs)) => RecallsOnly(t, arg[t])
\* C12: after remember(t) has returned and the process has been closed and the store
\* reopened, recall(t, k=1) returns [t], and the reopened store holds exactly the
\* documents stored before closing, in the same order (C12_ReopenStep in every step,
\* C12_RecallState in the state every step leads to).
C12_PersistenceRoundTrip == [][C12_ReopenStep /\ C12_RecallState']_vars

\* Every call of this process so far was made by thread t, one after another.
OnlyCaller(t) == \A u \in Threads \ {t} : tpc[u] = "idle" /\ ret[u] = NoRet

\* C13: a recall with k = 1 of a non-blank text whose remember has returned returns
\* exactly that text, whatever else the log holds (stated for calls made one after
\* another by one thread, where "after" has one meaning).
C13_RecallRoundTrip ==
    \A t \in Threads :
        (OnlyCaller(t) /\ op[t] = "retrieve" /\ tpc[t] = "map" /\ nres[t] = 1
            /\ Strip(arg[t]) # "" /\ arg[t] \in Range(doc_store)) => RecallsOnly(t, arg[t])

C15_EmbedderNeverRaises == \A t \in Threads : ret[t] # "ModelLoadError"

\* The places of store_memory after model = get_embedding_model().
StoreBody == {"encode", "lock", "add", "append", "write_index", "write_index_end",
              "open_docs", "dump"}

\* C16: a store_memory call with empty or whitespace-only text changes nothing: no
\* step of its body changes the document log, the index or either file.
C16_BlankStoreIsNoOp ==
    [][\A t \in Threads :
          (op[t] = "store" /\ Strip(arg[t]) = "" /\ tpc[t] \in StoreBody
              /\ tpc'[t] # tpc[t]) =>
                  /\ doc_store' = doc_store
                  /\ faiss_index' = faiss_index
                  /\ index_file' = index_file
                  /\ docs_file' = docs_file]_vars

\* C17: a retrieve_relevant_memories call that ends while the store is empty ends by
\* returning the empty list (the return of line 92), never by raising.
C17_EmptyStoreRecall ==
    [][\A t \in Threads :
          (op[t] = "retrieve" /\ tpc[t] # "idle" /\ tpc'[t] = "idle"
              /\ Ntotal(faiss_index) = 0 /\ doc_store = <<>>) =>
                  /\ ret'[t] = "returned"
                  /\ tpc[t] = "check"]_vars

\* Position i of the index is nearer to q than position j, or as near and earlier.
Before(vectors, q, i, j) ==
    \/ Dist(vectors[i], q) < Dist(vectors[j], q)
    \/ Dist(vectors[i], q) = Dist(vectors[j], q) /\ i < j

\* C18: the search of a retrieve_relevant_memories(query, k) call on a store of n
\* documents yields min(k, n) positions of the document log, those of the min(k, n)
\* vectors nearest to the query's, nearest first and the earlier first among equals;
\* and the call returns the documents at those positions: it never ends in IndexError.
C18_RecallNearestFirst ==
    [][\A t \in Threads :
          /\ ret'[t] # "IndexError"
          /\ (op[t] = "retrieve" /\ tpc[t] = "search" /\ tpc'[t] = "map") =>
                LET n == Len(doc_store)
                    k == Min(nres[t], n)
                    q == Encode(arg[t])
                    v == faiss_index.vectors
                    f == found'[t]
                IN  /\ Len(f) = k
                    /\ \A i \in 1..Len(f) : f[i] \in 1..n
                    /\ \A i, j \in 1..k : i < j => Before(v, q, f[i], f[j])
                    /\ \A i \in 1..k : \A p \in (1..n) \ Range(f) :
                          Before(v, q, f[i], p)]_vars

\* faiss_index and doc_store are the objects they were, each holding what it held
\* and at most more at its end.
IsPrefix(a, b) == Len(a) <= Len(b) /\ SubSeq(b, 1, Len(a)) = a
\* After the first, a run of _initialize_memory changes nothing; and whatever a step
\* of an initialized process does, the index and the log keep what they hold.
C19_Step ==
    /\ \A t \in Threads :
          (tpc[t] = "init_locked" /\ tpc'[t] # "init_locked" /\ ~faiss_index.is_none) =>
              (faiss_index' = faiss_index /\ doc_store' = doc_store /\ init_log' = init_log)
    /\ (~faiss_index.is_none /\ ~faiss_index'.is_none) =>
          (IsPrefix(faiss_index.vectors, faiss_index'.vectors)
              /\ IsPrefix(doc_store, doc_store'))
C19_State ==
    /\ runs.inits <= 1
    /\ (runs.inits = 1) <=> ~faiss_index.is_none
\* C19: in one process the load-or-create body of _initialize_memory runs at most
\* once, whichever calls come first and however they interleave, and no later call
\* replaces or resets the index or the document log (C19_State in every state,
\* C19_Step in every step).
C19_InitializedOnce == [](C19_State) /\ [][C19_Step]_vars
\* Two calls under way at once are both past _initialize_memory, whose body ran
\* once, and the store has a text.
C19_Witness ==
    /\ runs.inits = 1
    /\ \A t \in Threads : tpc[t] \notin {"idle", "init", "init_locked"}
    /\ Len(doc_store) >= 1

\* C20: the document log is append-only.  In a step of a running process the log
\* either stays as it is or gets one entry at its end, the text of the store_memory
\* call that takes line 79 in that step; the load of the log from DOCS_FILE fills a
\* log that was empty; and every store_memory call passing line 79 appends its text.
C20_AppendOnly ==
    [][/\ (~faiss_index.is_none /\ ~faiss_index'.is_none) =>
            \/ doc_store' = doc_store
            \/ \E t \in Threads :
                  /\ op[t] = "store" /\ tpc[t] = "append" /\ tpc'[t] = "write_index"
                  /\ doc_store' = Append(doc_store, arg[t])
       /\ (faiss_index.is_none /\ doc_store' # doc_store) => doc_store = <<>>
       /\ \A t \in Threads :
            (tpc[t] = "append" /\ tpc'[t] = "write_index") =>
                doc_store' = Append(doc_store, arg[t])]_vars
\* A log loaded from DOCS_FILE with one entry has got a second one, and a recall has
\* since returned.
C20_Witness ==
    /\ init_log = "loaded"
    /\ Len(closed.docs) = 1
    /\ Len(doc_store) = 2
    /\ SubSeq(doc_store, 1, 1) = closed.docs
    /\ \A t \in Threads : tpc[t] = "idle"
    /\ \E t \in Threads : ret[t] = "returned"

\* C21: the GUI thread never waits for a task.  No step leaves it inside a
\* queue.get() that found no message, and the step of send_message that starts a
\* worker ends with the worker only started: nothing of its result exists yet and
\* the timer is left to poll for it.
C21_HostNeverBlocks ==
    [][/\ ~waiting'
       /\ \A w \in Tasks :
            (ntasks = w - 1 /\ ntasks' = w) =>
                /\ wpc'[w] = "start"
                /\ Len(queue'[w]) + handed'[w] = 0
                /\ mp_queue' = w
                /\ timer_active']_vars
\* The first task's result has been taken and shown, and the timer is polling for
\* the second task, whose worker is still running and has put nothing.
C21_Witness ==
    /\ ~waiting
    /\ handed[1] = 1
    /\ ntasks = 2 /\ mp_queue = 2
    /\ timer_active
    /\ wpc[2] \in {"start", "invoke", "put"}
    /\ queue[2] = <<>>

\* C22: the pipeline gets the conversation history by value.  What a worker reads
\* at line 119 is the history as it was when send_message started the worker, and
\* no step of a worker changes the host's conversation_history.
C22_HistoryByValue ==
    [][\A w \in Tasks :
          /\ (wpc[w] = "start" /\ wpc'[w] = "invoke") =>
                chat_history'[w] = JoinHistory(history_arg[w])
          /\ (wpc[w] \notin {"idle", "done"} /\ wpc'[w] # wpc[w]) =>
                conversation_history' = conversation_history]_vars

\* C24: a result the host has taken is shown as a failure exactly when the pipeline
\* raised; a text the pipeline returned is shown as the answer and is in the
\* conversation history as an assistant turn, and a failure text is not.
C24_FailureIffRaised ==
    \A w \in Tasks :
        handed[w] > 0 =>
            /\ (shown[w] = "error") <=> raised[w].is
            /\ ~raised[w].is =>
                  [role |-> "assistant", content |-> ai_text[w]] \in Range(conversation_history)
            /\ raised[w].is =>
                  [role |-> "assistant", content |-> ai_text[w]] \notin Range(conversation_history)

\* C23: the retry of AgentEngine.run is bounded: whatever the validator answers, a
\* run stops re-deciding after a fixed number of attempts of its own and ends by
\* returning, an accepted result or a terminal failure; it never goes on until the
\* interpreter has no frame left for the next attempt.
C23_RetryBounded == epc # "RecursionError"

\* C25: a process that ended inside store_memory's persistence step, after
\* INDEX_FILE was written, loses no document whose store_memory had returned: the
\* log the next process loads begins with all of them.
C25_CrashKeepsAcknowledged ==
    [][\A t \in Threads :
          (LoadStep(t) /\ ~closed.any /\ index_file.state = "ok") =>
              IsPrefix(closed.docs, doc_store')]_vars

\* The places of a call inside a `with state_lock` block, and those at one.
InsideLock == {"init_locked", "model_locked", "add", "append",
               "write_index", "write_index_end", "open_docs", "dump"}
AtLock == {"init", "model", "lock"}

====
